---- MODULE Spec2Model ----
(***************************************************************************)
(* Heat Pump Predictor: the bucketed accumulator (data_manager.py), the    *)
(* estimation engine (calculator.py, __init__.py), the forecast energy    *)
(* queries (coordinator.py, __init__.py) and the coordinator's polling,   *)
(* notification, persistence and shutdown paths (coordinator.py).         *)
(*                                                                         *)
(* Python floats are modelled as exact rationals [num, den] (den > 0) for  *)
(* temperatures and derived metrics; energy counters are whole kWh and     *)
(* timestamps whole seconds.  An Optional value is <<>> (None) or <<x>>.   *)
(***************************************************************************)
EXTENDS Integers, Sequences, FiniteSets, TLC

\* ------------------------------------------------------------ bounds
\* Latest timestamp (seconds) an observation may carry.
MaxTime == 2
\* Largest reading of the cumulative energy counter (kWh).
MaxEnergy == 1

\* ------------------------------------------------------------ constants
MIN_TEMP == -25
MAX_TEMP == 30

\* ------------------------------------------------------------ values
None == <<>>
Some(x) == <<x>>
Val(o) == o[1]

Rat(n, d) == [num |-> n, den |-> d]
Max(a, b) == IF a >= b THEN a ELSE b
Min(a, b) == IF a <= b THEN a ELSE b

\* math.floor on a rational: \div rounds toward minus infinity for den > 0.
Floor(r) == r.num \div r.den

\* A ceiling that is floor + 1 on whole numbers too.
Ceil_floor_plus_one(r) == Floor(r) + 1

\* math.ceil on a rational.
Ceil(r) == -((-r.num) \div r.den)

Abs(x) == IF x < 0 THEN -x ELSE x

RECURSIVE Gcd(_, _)
Gcd(a, b) == IF b = 0 THEN a ELSE Gcd(b, a % b)

\* The rational n/d (d # 0) in lowest terms with a positive denominator.
Norm(n, d) ==
    LET g == Gcd(Abs(n), Abs(d))
        sgn == IF d < 0 THEN -1 ELSE 1
    IN  Rat(sgn * (n \div g), sgn * (d \div g))

RatInt(k) == Rat(k, 1)
RatAdd(a, b) == Norm(a.num * b.den + b.num * a.den, a.den * b.den)
RatSub(a, b) == Norm(a.num * b.den - b.num * a.den, a.den * b.den)
RatMul(a, b) == Norm(a.num * b.num, a.den * b.den)
RatDiv(a, b) == Norm(a.num * b.den, a.den * b.num)
RatLess(a, b) == a.num * b.den < b.num * a.den
RatLeq(a, b) == a.num * b.den <= b.num * a.den
RatEq(a, b) == a.num * b.den = b.num * a.den
RatAbs(a) == Rat(Abs(a.num), a.den)
RatMax(a, b) == IF RatLeq(b, a) THEN a ELSE b
RatMin(a, b) == IF RatLeq(a, b) THEN a ELSE b

BucketKeys == MIN_TEMP .. MAX_TEMP

\* TemperatureBucketData(temp, 0.0, 0.0, 0.0, None)
EmptyBucket(temp) ==
    [temperature          |-> temp,
     total_energy_kwh     |-> 0,
     total_time_seconds   |-> 0,
     running_time_seconds |-> 0,
     last_update          |-> None]

\* Temperatures the sensor may report: a negative fractional one and two
\* integral ones.
Temps == { Rat(-1, 2), Rat(5, 1), Rat(10, 1) }
Energies == 0 .. MaxEnergy
Timestamps == 0 .. MaxTime

VARIABLES
    buckets,             \* HeatPumpDataManager.buckets
    last_temperature,    \* HeatPumpDataManager._last_temperature
    last_energy_kwh,     \* HeatPumpDataManager._last_energy_kwh
    last_running_state,  \* HeatPumpDataManager._last_running_state
    last_update_time,    \* HeatPumpDataManager._last_update_time
    outcome,             \* return point the most recent process_state_update took
    clean,               \* every call after the first had dt > 0 and dE >= 0
    sum_dt,              \* sum of the dt of the calls after the first, while clean
    first_time,          \* timestamp of the first process_state_update call
    query,               \* the most recent estimation query, None before the first
    result,              \* what that query returned or raised
    forecast,            \* HeatPumpCoordinator._forecast
    hourly_forecast,     \* the coordinator attribute hourly_forecast, None while unset
    utcnow,              \* the clock dt_util.utcnow() reads
    stored,              \* what the Store holds on disk, None while nothing was saved
    writes,              \* async_save calls that have not finished, oldest first
    delay_save,          \* async_delay_save has a write scheduled
    phase,               \* where the coordinator is: new, loaded, first_refresh,
                         \* not_ready, running, stopping, closing or closed
    raised,              \* what the entry point that finished last raised
    serial               \* the store the observations give when applied one by one

vars == << buckets, last_temperature, last_energy_kwh, last_running_state,
           last_update_time, outcome, clean, sum_dt, first_time, query, result,
           forecast, hourly_forecast, utcnow, stored, writes, delay_save, phase,
           raised, serial >>

\* ------------------------------------------------------------ data_manager.py

\* HeatPumpDataManager.get_bucket, truncating toward zero instead of flooring.
get_bucket_trunc(temperature) ==
    LET f == Floor(temperature)
        temp_int == IF temperature.num < 0 /\ f * temperature.den # temperature.num
                    THEN f + 1 ELSE f
    IN  Max(MIN_TEMP, Min(MAX_TEMP, temp_int))

get_bucket(temperature) ==
    LET temp_int == Floor(temperature)
    IN  Max(MIN_TEMP, Min(MAX_TEMP, temp_int))

\* The store as one value, so that process_state_update is a function on it.
Store(b, lt, le, lr, lu) ==
    [buckets            |-> b,
     last_temperature   |-> lt,
     last_energy_kwh    |-> le,
     last_running_state |-> lr,
     last_update_time   |-> lu]

\* HeatPumpDataManager.__init__
NewStore ==
    Store([temp \in BucketKeys |-> EmptyBucket(temp)], None, None, None, None)

\* Lines 122-126 (and 83-86): overwrite the tracking fields.
update_tracking(st, current_temp, current_energy_kwh, is_running, timestamp) ==
    [st EXCEPT !.last_temperature   = Some(current_temp),
               !.last_energy_kwh    = Some(current_energy_kwh),
               !.last_running_state = Some(is_running),
               !.last_update_time   = Some(timestamp)]

\* counter_reset that forgets to move the energy baseline.
counter_reset_keeps_energy(st, current_energy_kwh) == st

\* Lines 100-105: counter reset, only the energy baseline moves.
counter_reset(st, current_energy_kwh) ==
    [st EXCEPT !.last_energy_kwh = Some(current_energy_kwh)]

\* attribute with total_time_seconds += dt moved into an else branch of the
\* running test.
attribute_total_when_idle(st, time_delta_seconds, energy_delta_kwh, timestamp) ==
    LET bucket_temp == get_bucket(Val(st.last_temperature))
        bucket == st.buckets[bucket_temp]
        ran == IF Val(st.last_running_state) /\ energy_delta_kwh > 0
               THEN [bucket EXCEPT !.running_time_seconds = @ + time_delta_seconds,
                                   !.total_energy_kwh = @ + energy_delta_kwh]
               ELSE [bucket EXCEPT !.total_time_seconds = @ + time_delta_seconds]
        stamped == [ran EXCEPT !.last_update = Some(timestamp)]
    IN  [st EXCEPT !.buckets[bucket_temp] = stamped]

\* attribute that drops the interval of an idle appliance altogether.
attribute_skips_idle(st, time_delta_seconds, energy_delta_kwh, timestamp) ==
    LET bucket_temp == get_bucket(Val(st.last_temperature))
        bucket == st.buckets[bucket_temp]
        ran == IF Val(st.last_running_state) /\ energy_delta_kwh > 0
               THEN [bucket EXCEPT !.total_time_seconds = @ + time_delta_seconds,
                                   !.running_time_seconds = @ + time_delta_seconds,
                                   !.total_energy_kwh = @ + energy_delta_kwh]
               ELSE bucket
        stamped == [ran EXCEPT !.last_update = Some(timestamp)]
    IN  [st EXCEPT !.buckets[bucket_temp] = stamped]

\* attribute that tests the running flag alone, not energy_delta_kwh > 0.
attribute_ignores_energy(st, time_delta_seconds, energy_delta_kwh, timestamp) ==
    LET bucket_temp == get_bucket(Val(st.last_temperature))
        bucket == st.buckets[bucket_temp]
        timed == [bucket EXCEPT !.total_time_seconds = @ + time_delta_seconds]
        ran == IF Val(st.last_running_state)
               THEN [timed EXCEPT !.running_time_seconds = @ + time_delta_seconds,
                                  !.total_energy_kwh = @ + energy_delta_kwh]
               ELSE timed
        stamped == [ran EXCEPT !.last_update = Some(timestamp)]
    IN  [st EXCEPT !.buckets[bucket_temp] = stamped]

\* Lines 107-120: attribute the interval to the previous temperature's bucket.
attribute(st, time_delta_seconds, energy_delta_kwh, timestamp) ==
    LET bucket_temp == get_bucket(Val(st.last_temperature))
        bucket == st.buckets[bucket_temp]
        timed == [bucket EXCEPT !.total_time_seconds = @ + time_delta_seconds]
        ran == IF Val(st.last_running_state) /\ energy_delta_kwh > 0
               THEN [timed EXCEPT !.running_time_seconds = @ + time_delta_seconds,
                                  !.total_energy_kwh = @ + energy_delta_kwh]
               ELSE timed
        stamped == [ran EXCEPT !.last_update = Some(timestamp)]
    IN  [st EXCEPT !.buckets[bucket_temp] = stamped]

\* process_state_update that overwrites the tracking fields before attributing,
\* so the interval lands in the bucket of the new reading.
process_state_update_tracks_first(st, current_temp, current_energy_kwh, is_running, timestamp) ==
    IF st.last_update_time = None
    THEN update_tracking(st, current_temp, current_energy_kwh, is_running, timestamp)
    ELSE LET time_delta_seconds == timestamp - Val(st.last_update_time)
             energy_delta_kwh == current_energy_kwh - Val(st.last_energy_kwh)
         IN  IF time_delta_seconds <= 0
             THEN st
             ELSE IF energy_delta_kwh < 0
             THEN counter_reset(st, current_energy_kwh)
             ELSE attribute(
                      update_tracking(st, current_temp, current_energy_kwh,
                                      is_running, timestamp),
                      time_delta_seconds, energy_delta_kwh, timestamp)

\* process_state_update whose first call also stamps the bucket of the reading.
process_state_update_first_stamps(st, current_temp, current_energy_kwh, is_running, timestamp) ==
    IF st.last_update_time = None
    THEN [update_tracking(st, current_temp, current_energy_kwh, is_running, timestamp)
            EXCEPT !.buckets[get_bucket(current_temp)].last_update = Some(timestamp)]
    ELSE LET time_delta_seconds == timestamp - Val(st.last_update_time)
             energy_delta_kwh == current_energy_kwh - Val(st.last_energy_kwh)
         IN  IF time_delta_seconds <= 0
             THEN st
             ELSE IF energy_delta_kwh < 0
             THEN counter_reset(st, current_energy_kwh)
             ELSE update_tracking(
                      attribute(st, time_delta_seconds, energy_delta_kwh, timestamp),
                      current_temp, current_energy_kwh, is_running, timestamp)

\* process_state_update that tests the energy delta before the time delta.
process_state_update_reset_first(st, current_temp, current_energy_kwh, is_running, timestamp) ==
    IF st.last_update_time = None
    THEN update_tracking(st, current_temp, current_energy_kwh, is_running, timestamp)
    ELSE LET time_delta_seconds == timestamp - Val(st.last_update_time)
             energy_delta_kwh == current_energy_kwh - Val(st.last_energy_kwh)
         IN  IF energy_delta_kwh < 0
             THEN counter_reset(st, current_energy_kwh)
             ELSE IF time_delta_seconds <= 0
             THEN st
             ELSE update_tracking(
                      attribute(st, time_delta_seconds, energy_delta_kwh, timestamp),
                      current_temp, current_energy_kwh, is_running, timestamp)

\* process_state_update whose counter-reset branch overwrites all four
\* tracking fields, as its comment announces.
process_state_update_reset_tracks(st, current_temp, current_energy_kwh, is_running, timestamp) ==
    IF st.last_update_time = None
    THEN update_tracking(st, current_temp, current_energy_kwh, is_running, timestamp)
    ELSE LET time_delta_seconds == timestamp - Val(st.last_update_time)
             energy_delta_kwh == current_energy_kwh - Val(st.last_energy_kwh)
         IN  IF time_delta_seconds <= 0
             THEN st
             ELSE IF energy_delta_kwh < 0
             THEN update_tracking(st, current_temp, current_energy_kwh, is_running,
                                  timestamp)
             ELSE update_tracking(
                      attribute(st, time_delta_seconds, energy_delta_kwh, timestamp),
                      current_temp, current_energy_kwh, is_running, timestamp)

\* HeatPumpDataManager.process_state_update: the store after the call.
process_state_update(st, current_temp, current_energy_kwh, is_running, timestamp) ==
    IF st.last_update_time = None
    THEN update_tracking(st, current_temp, current_energy_kwh, is_running, timestamp)
    ELSE LET time_delta_seconds == timestamp - Val(st.last_update_time)
             energy_delta_kwh == current_energy_kwh - Val(st.last_energy_kwh)
         IN  IF time_delta_seconds <= 0
             THEN st
             ELSE IF energy_delta_kwh < 0
             THEN counter_reset(st, current_energy_kwh)
             ELSE update_tracking(
                      attribute(st, time_delta_seconds, energy_delta_kwh, timestamp),
                      current_temp, current_energy_kwh, is_running, timestamp)

\* The return point process_state_update takes (the function raises nothing).
return_point(st, current_energy_kwh, timestamp) ==
    IF st.last_update_time = None THEN "first"
    ELSE IF timestamp - Val(st.last_update_time) <= 0 THEN "rejected"
    ELSE IF current_energy_kwh - Val(st.last_energy_kwh) < 0 THEN "reset"
    ELSE "attributed"

\* ------------------------------------------------------------ derived metrics

\* TemperatureBucketData.average_power_when_running (W)
average_power_when_running(b) ==
    IF b.running_time_seconds = 0 THEN RatInt(0)
    ELSE LET hours == Norm(b.running_time_seconds, 3600)
         IN  IF RatLess(RatInt(0), hours)
             THEN RatDiv(RatInt(b.total_energy_kwh * 1000), hours)
             ELSE RatInt(0)

\* TemperatureBucketData.average_power_overall (W)
average_power_overall(b) ==
    IF b.total_time_seconds = 0 THEN RatInt(0)
    ELSE LET hours == Norm(b.total_time_seconds, 3600)
         IN  IF RatLess(RatInt(0), hours)
             THEN RatDiv(RatInt(b.total_energy_kwh * 1000), hours)
             ELSE RatInt(0)

\* TemperatureBucketData.duty_cycle_percent
duty_cycle_percent(b) ==
    IF b.total_time_seconds = 0 THEN RatInt(0)
    ELSE RatMul(Norm(b.running_time_seconds, b.total_time_seconds), RatInt(100))

\* ------------------------------------------------------------ calculator.py, __init__.py

\* The source-bucket test of the search loop, accepting empty buckets too.
is_populated_or_empty(b) == b.total_time_seconds >= 0

\* The source-bucket test of the search loop, on running time instead.
is_populated_running(b) == b.running_time_seconds > 0

\* `if buckets[temp].total_time_seconds > 0` in the search loop.
is_populated(b) == b.total_time_seconds > 0

\* The search loop `for temp in range(MIN_TEMP, MAX_TEMP + 1)` from `temp` on:
\* min_distance is None for float("inf"); distances are measured from `ref`.
RECURSIVE nearest_scan(_, _, _, _, _)
nearest_scan(bkts, ref, temp, min_distance, source_bucket_index) ==
    IF temp > MAX_TEMP THEN source_bucket_index
    ELSE IF is_populated(bkts[temp])
    THEN LET distance == RatAbs(RatSub(RatInt(temp), ref))
         IN  IF min_distance = None \/ RatLess(distance, Val(min_distance))
             THEN nearest_scan(bkts, ref, temp + 1, Some(distance), Some(temp))
             ELSE nearest_scan(bkts, ref, temp + 1, min_distance, source_bucket_index)
    ELSE nearest_scan(bkts, ref, temp + 1, min_distance, source_bucket_index)

\* The multiplier without its 0.1 floor.
approximation_multiplier_unfloored(source_temp, target_temp) ==
    IF RatLeq(target_temp, RatInt(25))
    THEN RatSub(RatInt(1), RatMul(Rat(1, 5), RatSub(target_temp, RatInt(source_temp))))
    ELSE RatMul(RatSub(RatInt(1), RatMul(Rat(1, 5), RatInt(25 - source_temp))),
                RatAdd(RatInt(1), RatMul(Rat(1, 5), RatSub(target_temp, RatInt(25)))))

\* The multiplier of an approximated estimate (midpoint 25, slope 0.20).
approximation_multiplier(source_temp, target_temp) ==
    LET midpoint == RatInt(25)
        fifth == Rat(1, 5)
        tenth == Rat(1, 10)
        one == RatInt(1)
    IN  IF RatLeq(target_temp, midpoint)
        THEN LET temp_diff == RatSub(target_temp, RatInt(source_temp))
             IN  RatMax(tenth, RatSub(one, RatMul(fifth, temp_diff)))
        ELSE LET temp_diff_to_midpoint == RatSub(midpoint, RatInt(source_temp))
                 multiplier_at_midpoint ==
                     RatMax(tenth, RatSub(one, RatMul(fifth, temp_diff_to_midpoint)))
                 temp_diff_from_midpoint == RatSub(target_temp, midpoint)
             IN  RatMul(multiplier_at_midpoint,
                        RatAdd(one, RatMul(fifth, temp_diff_from_midpoint)))

\* _calculate_confidence
calculate_confidence(total_time_seconds) ==
    LET hours == Norm(total_time_seconds, 3600)
    IN  IF RatLeq(RatInt(24), hours) THEN "high"
        ELSE IF RatLeq(RatInt(4), hours) THEN "medium"
        ELSE "low"

\* Lines 40-60 and 69-78: the result approximated from source bucket `source`.
approximated_estimate(bucket_index, source, source_bucket_data, multiplier) ==
    [status |-> "ok",
     power_overall_w |-> RatMul(average_power_overall(source_bucket_data), multiplier),
     power_running_w |->
         RatMul(average_power_when_running(source_bucket_data), multiplier),
     duty_cycle_percent |-> duty_cycle_percent(source_bucket_data),
     temperature_bucket |-> bucket_index,
     confidence |-> "approximated",
     approximated |-> TRUE,
     approximation_source |-> Some(source),
     data_points_hours |-> Norm(source_bucket_data.total_time_seconds, 3600)]

\* Lines 61-78: the result read from the queried bucket itself.
direct_estimate(bucket_index, bucket_data) ==
    [status |-> "ok",
     power_overall_w |-> average_power_overall(bucket_data),
     power_running_w |-> average_power_when_running(bucket_data),
     duty_cycle_percent |-> duty_cycle_percent(bucket_data),
     temperature_bucket |-> bucket_index,
     confidence |-> calculate_confidence(bucket_data.total_time_seconds),
     approximated |-> FALSE,
     approximation_source |-> None,
     data_points_hours |-> Norm(bucket_data.total_time_seconds, 3600)]

\* Lines 37-42: raise when the search found nothing, else approximate.
approximate_from(bkts, temperature, bucket_index, source, error) ==
    IF source = None
    THEN [status |-> error]
    ELSE approximated_estimate(bucket_index, Val(source), bkts[Val(source)],
                               approximation_multiplier(Val(source), temperature))

\* The body the two point estimators share.  They differ in the point `ref`
\* the search loop measures distances from and in the error they raise.
estimation(bkts, temperature, bucket_index, ref, error) ==
    IF bkts[bucket_index].total_time_seconds = 0
    THEN approximate_from(bkts, temperature, bucket_index,
                          nearest_scan(bkts, ref, MIN_TEMP, None, None), error)
    ELSE direct_estimate(bucket_index, bkts[bucket_index])

\* HeatPumpCalculator.estimate_power_for_temperature: distance = abs(temp - temperature)
estimate_power_for_temperature(bkts, temperature) ==
    estimation(bkts, temperature, get_bucket(temperature), temperature, "ValueError")

\* The service's point estimate with distances measured from the query.
service_estimate_from_query(bkts, temperature) ==
    estimation(bkts, temperature, get_bucket(temperature), temperature,
               "no_data_for_approximation")

\* __init__._estimate_power_for_temperature: distance = abs(temp - 0)
service_estimate_power_for_temperature(bkts, temperature) ==
    estimation(bkts, temperature, get_bucket(temperature), RatInt(0),
               "no_data_for_approximation")

\* _combine_confidence
combine_confidence(conf_a, conf_b, approximated) ==
    IF approximated THEN "approximated"
    ELSE IF "low" \in {conf_a, conf_b} THEN "low"
    ELSE IF "medium" \in {conf_a, conf_b} THEN "medium"
    ELSE "high"

\* Python's `a or b` on Optional[int]: None and 0 are falsy.
py_or(a, b) == IF a # None /\ Val(a) # 0 THEN a ELSE b

\* _lerp adding the weighted upper value instead of the weighted difference.
lerp_unscaled(a, b, w) == RatAdd(a, RatMul(b, w))

\* _lerp
lerp(a, b, w) == RatAdd(a, RatMul(RatSub(b, a), w))

\* Lines 90-112: the two endpoint estimates blended; an exception of an
\* endpoint's estimate propagates (the lower endpoint is estimated first).
interpolated_estimate(lower_est, upper_est, weight, approximated, temperature) ==
    IF lower_est.status # "ok" THEN lower_est
    ELSE IF upper_est.status # "ok" THEN upper_est
    ELSE [status |-> "ok",
          power_overall_w |->
              lerp(lower_est.power_overall_w, upper_est.power_overall_w, weight),
          power_running_w |->
              lerp(lower_est.power_running_w, upper_est.power_running_w, weight),
          duty_cycle_percent |->
              lerp(lower_est.duty_cycle_percent, upper_est.duty_cycle_percent, weight),
          temperature_bucket |-> temperature,
          confidence |->
              combine_confidence(lower_est.confidence, upper_est.confidence,
                                 approximated),
          approximated |-> approximated,
          approximation_source |->
              py_or(lower_est.approximation_source, upper_est.approximation_source),
          data_points_hours |->
              RatMin(lower_est.data_points_hours, upper_est.data_points_hours)]

\* `bool(lower_est["approximated"] or upper_est["approximated"])`
either_approximated(lower_est, upper_est) ==
    lower_est.status = "ok" /\ upper_est.status = "ok"
        /\ (lower_est.approximated \/ upper_est.approximated)

\* Lines 88-112 with the weight measured from the upper endpoint.
interpolate_between_upper_weight(lower_est, upper_est, lower, upper, temperature) ==
    interpolated_estimate(
        lower_est, upper_est,
        RatDiv(RatSub(RatInt(upper), temperature), RatInt(upper - lower)),
        either_approximated(lower_est, upper_est), temperature)

\* Lines 88-112 for endpoints lower # upper.
interpolate_between(lower_est, upper_est, lower, upper, temperature) ==
    interpolated_estimate(
        lower_est, upper_est,
        RatDiv(RatSub(temperature, RatInt(lower)), RatInt(upper - lower)),
        either_approximated(lower_est, upper_est), temperature)

\* The body the two interpolators share, given the point estimates it asks
\* for: at the temperature itself when lower = upper, else at the endpoints.
interpolation(whole_est, lower_est, upper_est, temperature, lower, upper) ==
    IF lower = upper
    THEN whole_est
    ELSE interpolate_between(lower_est, upper_est, lower, upper, temperature)

\* `max(MIN_TEMP, min(MAX_TEMP, x))` of interpolate_estimation
clamp(x) == Max(MIN_TEMP, Min(MAX_TEMP, x))

\* HeatPumpCalculator.interpolate_estimation
interpolate_estimation(bkts, temperature) ==
    interpolation(
        estimate_power_for_temperature(bkts, temperature),
        estimate_power_for_temperature(bkts, RatInt(clamp(Floor(temperature)))),
        estimate_power_for_temperature(bkts, RatInt(clamp(Ceil(temperature)))),
        temperature, clamp(Floor(temperature)), clamp(Ceil(temperature)))

\* __init__._interpolate_estimation
service_interpolate_estimation(bkts, temperature) ==
    interpolation(
        service_estimate_power_for_temperature(bkts, temperature),
        service_estimate_power_for_temperature(bkts, RatInt(clamp(Floor(temperature)))),
        service_estimate_power_for_temperature(bkts, RatInt(clamp(Ceil(temperature)))),
        temperature, clamp(Floor(temperature)), clamp(Ceil(temperature)))

\* ------------------------------------------------------------ forecast energy

\* trend_adjustment without the cap `min(1.0, ...)` on the ratio.
trend_adjustment_unsaturated(delta) ==
    IF RatEq(delta, RatInt(0)) THEN RatInt(1)
    ELSE IF RatLess(delta, RatInt(0))
    THEN RatAdd(RatInt(1), RatMul(Rat(1, 5), RatDiv(RatAbs(delta), Rat(3, 2))))
    ELSE RatMax(RatInt(0),
                RatSub(RatInt(1), RatMul(Rat(1, 5), RatDiv(RatAbs(delta), Rat(3, 2)))))

\* HeatPumpCalculator.trend_adjustment and __init__._trend_adjustment, for a
\* number delta (both callers skip the call when delta is None).
trend_adjustment(delta) ==
    IF RatEq(delta, RatInt(0)) THEN RatInt(1)
    ELSE IF RatLess(delta, RatInt(0))
    THEN RatAdd(RatInt(1),
                RatMul(Rat(1, 5), RatMin(RatInt(1), RatDiv(RatAbs(delta), Rat(3, 2)))))
    ELSE RatMax(RatInt(0),
                RatSub(RatInt(1),
                       RatMul(Rat(1, 5),
                              RatMin(RatInt(1), RatDiv(RatAbs(delta), Rat(3, 2))))))

\* The nearest integer, ties to the even one (Python's round).
round_half_even(r) ==
    LET f == Floor(r)
        twice == 2 * (r.num - f * r.den)
    IN  IF twice < r.den THEN f
        ELSE IF twice > r.den THEN f + 1
        ELSE IF f % 2 = 0 THEN f ELSE f + 1

\* round(x, 3)
round3(x) == Norm(round_half_even(RatMul(x, RatInt(1000))), 1000)

\* The raw "temperature" of a forecast entry: absent (None), a number, or
\* a text float() rejects.
TempNone == [is |-> "none", number |-> RatInt(0)]
TempNumber(r) == [is |-> "number", number |-> r]
TempText == [is |-> "text", number |-> RatInt(0)]

\* A forecast entry: datetime is the hour it parses to (hours counted from a
\* local midnight), or None when parse_datetime returns None.
Entry(datetime, temperature) == [datetime |-> datetime, temperature |-> temperature]

\* One step of list.sort(key=datetime): `item` goes behind every entry that
\* is not later (the sort is stable).
RECURSIVE insert_sorted(_, _)
insert_sorted(sorted, item) ==
    IF sorted = << >> THEN << item >>
    ELSE IF Val(sorted[Len(sorted)].datetime) <= Val(item.datetime)
    THEN Append(sorted, item)
    ELSE Append(insert_sorted(SubSeq(sorted, 1, Len(sorted) - 1), item),
                sorted[Len(sorted)])

\* Lines 187-194: entries without a parsable datetime are skipped, the rest
\* sorted by datetime.
RECURSIVE parse_forecast(_, _, _)
parse_forecast(items, i, parsed_forecast) ==
    IF i > Len(items) THEN parsed_forecast
    ELSE IF items[i].datetime = None
    THEN parse_forecast(items, i + 1, parsed_forecast)
    ELSE parse_forecast(items, i + 1, insert_sorted(parsed_forecast, items[i]))

\* `dt_val >= now_local`: now is `hour` o'clock sharp or some time after it.
not_before(dt_val, now) == dt_val > now.hour \/ (dt_val = now.hour /\ now.on_the_hour)

\* `now_local.replace(minute=0, second=0, microsecond=0) + timedelta(hours=1)`
next_hour_start(now) == now.hour + 1

\* Line 196; indexes count from 1 here, from 0 in the code.
start_indexes(parsed_forecast, starting_hour, now) ==
    { idx \in 1 .. Len(parsed_forecast) :
        /\ not_before(Val(parsed_forecast[idx].datetime), now)
        /\ Val(parsed_forecast[idx].datetime) % 24 = starting_hour }

\* `parsed_forecast[start_index : start_index + hours_ahead]`
window_slice(parsed_forecast, start_index, hours_ahead) ==
    SubSeq(parsed_forecast, start_index,
           Min(Len(parsed_forecast), start_index + hours_ahead - 1))

Failure(key) == [status |-> key]

\* The entry of hour_details for one forecast hour (lines 265-287).
hour_detail(payload, temp_float, delta, energy_kwh, est) ==
    [datetime |-> Val(payload.datetime),
     temperature |-> temp_float,
     temperature_delta |-> delta,
     trend_adjustment |-> IF delta = None THEN None ELSE Some(trend_adjustment(Val(delta))),
     energy_kwh |-> round3(energy_kwh),
     confidence |-> est.confidence,
     approximated |-> est.approximated,
     approximation_source |-> est.approximation_source]

\* Lines 265-271: the delta against the previous temperature.
temperature_delta(temp_float, previous_temp) ==
    IF previous_temp = None THEN None ELSE Some(RatSub(temp_float, Val(previous_temp)))

\* Lines 269-271: power over one hour, scaled when there is a delta.
hour_energy(est, delta) ==
    IF delta = None
    THEN RatDiv(est.power_overall_w, RatInt(1000))
    ELSE RatMul(RatDiv(est.power_overall_w, RatInt(1000)),
                trend_adjustment(Val(delta)))

\* The loop `for dt_val, payload in window` from position i on, and the return
\* statement behind it.  `service` tells the two copies apart: the service
\* estimates with _interpolate_estimation, the coordinator with the
\* calculator, turning its ValueError into no_data_for_approximation.
RECURSIVE project(_, _, _, _, _, _, _, _)
RECURSIVE project_hour(_, _, _, _, _, _, _, _, _, _)
project(bkts, window, i, previous_temp, total_energy_kwh, hour_details, approximated_hours, service) ==
    IF i > Len(window)
    THEN [status |-> "ok",
          total_energy_kwh |-> round3(total_energy_kwh),
          hours |-> hour_details,
          hours_returned |-> Len(hour_details),
          approximated_hours |-> approximated_hours]
    ELSE IF window[i].temperature.is = "none" THEN Failure("forecast_hour_missing")
    ELSE IF window[i].temperature.is = "text" THEN Failure("ValueError")
    ELSE project_hour(bkts, window, i, previous_temp, total_energy_kwh, hour_details,
                      approximated_hours, service,
                      IF service
                      THEN service_interpolate_estimation(bkts, window[i].temperature.number)
                      ELSE interpolate_estimation(bkts, window[i].temperature.number),
                      temperature_delta(window[i].temperature.number, previous_temp))

project_hour(bkts, window, i, previous_temp, total_energy_kwh, hour_details, approximated_hours, service, est, delta) ==
    IF est.status # "ok" THEN Failure("no_data_for_approximation")
    ELSE project(bkts, window, i + 1, Some(window[i].temperature.number),
                 RatAdd(total_energy_kwh, hour_energy(est, delta)),
                 Append(hour_details,
                        hour_detail(window[i], window[i].temperature.number, delta,
                                    hour_energy(est, delta), est)),
                 approximated_hours + (IF est.approximated THEN 1 ELSE 0),
                 service)

\* The seed taken from the current temperature whatever the window.
seed_previous_temp_current(parsed_forecast, start_index, current_temperature, now) ==
    [status |-> "ok", previous_temp |-> current_temperature]

\* coordinator.py lines 216-244: the temperature the first delta is taken
\* against.  The window starting at the next full hour is seeded with the
\* current temperature, any other window with the forecast entry before it.
seed_previous_temp(parsed_forecast, start_index, current_temperature, now) ==
    IF Val(parsed_forecast[start_index].datetime) = next_hour_start(now)
    THEN [status |-> "ok", previous_temp |-> current_temperature]
    ELSE IF start_index = 1 THEN Failure("forecast_window_too_small")
    ELSE IF parsed_forecast[start_index - 1].temperature.is # "number"
    THEN Failure("forecast_hour_missing")
    ELSE [status |-> "ok",
          previous_temp |-> Some(parsed_forecast[start_index - 1].temperature.number)]

\* Lines 212-289 of the coordinator for a window that is long enough.
project_seeded(bkts, window, seed) ==
    IF seed.status # "ok" THEN seed
    ELSE project(bkts, window, 1, seed.previous_temp, RatInt(0), << >>, 0, FALSE)

\* The return value (lines 291-298) or the failure of the projection.
forecast_response(projection, starting_hour, hours_ahead) ==
    IF projection.status # "ok" THEN projection
    ELSE [status |-> "ok",
          total_energy_kwh |-> projection.total_energy_kwh,
          hours |-> projection.hours,
          hours_requested |-> hours_ahead,
          hours_returned |-> projection.hours_returned,
          approximated_hours |-> projection.approximated_hours,
          starting_hour |-> starting_hour]

\* Lines 203-289 once a start index exists.
forecast_from(bkts, parsed_forecast, start_index, window, hours_ahead, current_temperature, now, service) ==
    IF Len(window) < hours_ahead THEN Failure("forecast_window_too_small")
    ELSE IF service
    THEN project(bkts, window, 1, current_temperature, RatInt(0), << >>, 0, TRUE)
    ELSE project_seeded(bkts, window,
                        seed_previous_temp(parsed_forecast, start_index,
                                           current_temperature, now))

\* Lines 186-210 and on, for a cached forecast that is not empty.
forecast_parsed(bkts, parsed_forecast, indexes, starting_hour, hours_ahead, current_temperature, now, service) ==
    IF indexes = {} THEN Failure("forecast_window_too_small")
    ELSE forecast_from(bkts, parsed_forecast,
                       CHOOSE idx \in indexes : \A other \in indexes : idx <= other,
                       window_slice(parsed_forecast,
                                    CHOOSE idx \in indexes : \A other \in indexes : idx <= other,
                                    hours_ahead),
                       hours_ahead, current_temperature, now, service)

\* The body the two forecast queries share, from `if not <cached forecast>` on.
forecast_energy(bkts, cached, starting_hour, hours_ahead, current_temperature, now, service) ==
    IF cached = None \/ Val(cached) = << >> THEN Failure("forecast_unavailable")
    ELSE forecast_response(
             forecast_parsed(bkts, parse_forecast(Val(cached), 1, << >>),
                             start_indexes(parse_forecast(Val(cached), 1, << >>),
                                           starting_hour, now),
                             starting_hour, hours_ahead, current_temperature, now,
                             service),
             starting_hour, hours_ahead)

\* HeatPumpCoordinator.async_calculate_forecast_energy, reading self._forecast
async_calculate_forecast_energy(bkts, cached, starting_hour, hours_ahead, current_temperature, now) ==
    forecast_energy(bkts, cached, starting_hour, hours_ahead, current_temperature, now,
                    FALSE)

\* The calculate_forecast_energy service of __init__.py, reading
\* coordinator.hourly_forecast: an attribute HeatPumpCoordinator.__init__ does
\* not create, so reading it before a forecast sensor has assigned it raises
\* AttributeError.
service_calculate_forecast_energy(bkts, hourly, starting_hour, hours_ahead, current_temperature, now) ==
    IF hourly = None THEN Failure("AttributeError")
    ELSE forecast_energy(bkts, hourly, starting_hour, hours_ahead, current_temperature,
                         now, TRUE)

\* The coordinator's persistence and lifecycle fields where only the data
\* manager, the estimator or the forecast caches are exercised.
CoordinatorIdle ==
    /\ utcnow = 0
    /\ stored = None
    /\ writes = << >>
    /\ delay_save = FALSE
    /\ phase = "new"
    /\ raised = "none"
    /\ serial = NewStore

CoordinatorUnchanged ==
    UNCHANGED << utcnow, stored, writes, delay_save, phase, raised, serial >>

CurrentStore ==
    Store(buckets, last_temperature, last_energy_kwh, last_running_state,
          last_update_time)

\* ------------------------------------------------------------ specification

Init ==
    /\ buckets = NewStore.buckets
    /\ last_temperature = None
    /\ last_energy_kwh = None
    /\ last_running_state = None
    /\ last_update_time = None
    /\ outcome = "none"
    /\ clean = TRUE
    /\ sum_dt = 0
    /\ first_time = None
    /\ query = None
    /\ result = None
    /\ forecast = None
    /\ hourly_forecast = None
    /\ CoordinatorIdle

\* One call of process_state_update with arguments drawn from the input sets.
ProcessStateUpdate ==
    \E current_temp \in Temps, current_energy_kwh \in Energies,
       is_running \in BOOLEAN, timestamp \in Timestamps :
        LET st == process_state_update(CurrentStore, current_temp,
                                       current_energy_kwh, is_running, timestamp)
            rp == return_point(CurrentStore, current_energy_kwh, timestamp)
        IN  /\ buckets' = st.buckets
            /\ last_temperature' = st.last_temperature
            /\ last_energy_kwh' = st.last_energy_kwh
            /\ last_running_state' = st.last_running_state
            /\ last_update_time' = st.last_update_time
            /\ outcome' = rp
            /\ clean' = (clean /\ rp \in {"first", "attributed"})
            /\ sum_dt' = IF clean' /\ rp = "attributed"
                         THEN sum_dt + (timestamp - Val(last_update_time))
                         ELSE IF clean' THEN sum_dt ELSE 0
            /\ first_time' = IF rp = "first" THEN Some(timestamp) ELSE first_time
            /\ UNCHANGED << query, result, forecast, hourly_forecast >>
            /\ CoordinatorUnchanged

Next == ProcessStateUpdate

Spec == Init /\ [][Next]_vars

\* ------------------------------------------------------------ estimation queries

\* Bucket contents a table may hold: never written; one idle hour (0 W, low
\* confidence); ten hours, five of them running, on 1 kWh (100 W overall,
\* medium); thirty hours running on 6 kWh (200 W overall, high).  Each is what
\* attribute() leaves after suitable intervals.
Fills ==
    { [e |-> 0, t |-> 0,      r |-> 0],
      [e |-> 0, t |-> 3600,   r |-> 0],
      [e |-> 1, t |-> 36000,  r |-> 18000],
      [e |-> 6, t |-> 108000, r |-> 108000] }

\* The buckets a table may have populated; every other bucket is empty.
FillKeys == { -6, -1, 4, 5, 6 }

FilledBucket(temp, f) ==
    IF f.t = 0 THEN EmptyBucket(temp)
    ELSE [temperature          |-> temp,
          total_energy_kwh     |-> f.e,
          total_time_seconds   |-> f.t,
          running_time_seconds |-> f.r,
          last_update          |-> Some(f.t)]

Tables ==
    { [temp \in BucketKeys |->
          IF temp \in FillKeys THEN FilledBucket(temp, c[temp]) ELSE EmptyBucket(temp)]
      : c \in [FillKeys -> Fills] }

\* Temperatures queried: below range, negative fractional, integral, between
\* two buckets, positive fractional, above range.
QueryTemps ==
    { Rat(-30, 1), Rat(-1, 2), Rat(4, 1), Rat(9, 2), Rat(5, 1), Rat(59, 10),
      Rat(6, 1), Rat(301, 10) }

\* A store holding an accumulated bucket table (as after async_setup has
\* loaded it), before any query.
InitEst ==
    /\ buckets \in Tables
    /\ last_temperature = None
    /\ last_energy_kwh = None
    /\ last_running_state = None
    /\ last_update_time = None
    /\ outcome = "none"
    /\ clean = TRUE
    /\ sum_dt = 0
    /\ first_time = None
    /\ query = None
    /\ result = None
    /\ forecast = None
    /\ hourly_forecast = None
    /\ CoordinatorIdle

StoreUnchanged ==
    UNCHANGED << buckets, last_temperature, last_energy_kwh, last_running_state,
                 last_update_time, clean, sum_dt, first_time >>

CacheUnchanged == UNCHANGED << forecast, hourly_forecast >>

\* HeatPumpCalculator.estimate_power_for_temperature(temperature)
EstimatePower ==
    \E temperature \in QueryTemps :
        /\ result = None
        /\ query' = Some([kind |-> "estimate", temperature |-> temperature])
        /\ result' = Some(estimate_power_for_temperature(buckets, temperature))
        /\ StoreUnchanged
        /\ CoordinatorUnchanged
        /\ CacheUnchanged
        /\ UNCHANGED outcome

\* HeatPumpCalculator.interpolate_estimation(temperature)
InterpolateEstimation ==
    \E temperature \in QueryTemps :
        /\ result = None
        /\ query' = Some([kind |-> "interpolate", temperature |-> temperature])
        /\ result' = Some(interpolate_estimation(buckets, temperature))
        /\ StoreUnchanged
        /\ CoordinatorUnchanged
        /\ CacheUnchanged
        /\ UNCHANGED outcome

\* _estimate_power_for_temperature as async_calculate_energy calls it: the
\* service schema admits temperatures in [MIN_TEMP, MAX_TEMP] only.
ServiceEstimatePower ==
    \E temperature \in QueryTemps :
        /\ result = None
        /\ RatLeq(RatInt(MIN_TEMP), temperature)
        /\ RatLeq(temperature, RatInt(MAX_TEMP))
        /\ query' = Some([kind |-> "service_estimate", temperature |-> temperature])
        /\ result' = Some(service_estimate_power_for_temperature(buckets, temperature))
        /\ StoreUnchanged
        /\ CoordinatorUnchanged
        /\ CacheUnchanged
        /\ UNCHANGED outcome

\* _interpolate_estimation(coordinator, temperature)
ServiceInterpolateEstimation ==
    \E temperature \in QueryTemps :
        /\ result = None
        /\ query' = Some([kind |-> "service_interpolate", temperature |-> temperature])
        /\ result' = Some(service_interpolate_estimation(buckets, temperature))
        /\ StoreUnchanged
        /\ CoordinatorUnchanged
        /\ CacheUnchanged
        /\ UNCHANGED outcome

\* The synchronous call has returned: the caller takes the result, and only
\* then can the event loop start another query.
Return ==
    /\ result # None
    /\ query' = None
    /\ result' = None
    /\ StoreUnchanged
    /\ CoordinatorUnchanged
    /\ CacheUnchanged
    /\ UNCHANGED outcome

NextEst ==
    \/ Return
    \/ EstimatePower
    \/ InterpolateEstimation
    \/ ServiceEstimatePower
    \/ ServiceInterpolateEstimation

SpecEst == InitEst /\ [][NextEst]_vars

\* ------------------------------------------------------------ forecast queries

\* Tables the forecast is projected on: nothing recorded; buckets 4 (100 W,
\* medium) and 6 (200 W, high) populated, so that hours at 4 and 6 are read
\* directly and hours in between are approximated.
ForecastTables ==
    { [temp \in BucketKeys |-> EmptyBucket(temp)],
      [temp \in BucketKeys |->
          IF temp = 4 THEN FilledBucket(4, [e |-> 1, t |-> 36000, r |-> 18000])
          ELSE IF temp = 6 THEN FilledBucket(6, [e |-> 6, t |-> 108000, r |-> 108000])
          ELSE EmptyBucket(temp)] }

\* What the weather provider may return.  Hours count from today's midnight.
\* Four consecutive hours with deltas -0.5, +1.5 and -2; the same hours out
\* of order around an entry without a datetime, with deltas 0, +1.9 and -1.5;
\* hours of which one has no temperature and one a text; two hours of which
\* the first has a text for temperature; no hours at all.
ProviderForecasts ==
    { << Entry(Some(11), TempNumber(Rat(5, 1))), Entry(Some(12), TempNumber(Rat(9, 2))),
         Entry(Some(13), TempNumber(Rat(6, 1))), Entry(Some(14), TempNumber(Rat(4, 1))) >>,
      << Entry(Some(13), TempNumber(Rat(59, 10))), Entry(None, TempNumber(Rat(6, 1))),
         Entry(Some(12), TempNumber(Rat(4, 1))), Entry(Some(11), TempNumber(Rat(4, 1))),
         Entry(Some(14), TempNumber(Rat(22, 5))) >>,
      << Entry(Some(11), TempNumber(Rat(4, 1))), Entry(Some(12), TempNone),
         Entry(Some(13), TempText), Entry(Some(14), TempNumber(Rat(6, 1))) >>,
      << Entry(Some(11), TempText), Entry(Some(12), TempNumber(Rat(5, 1))) >>,
      << >> }

\* The service schema admits starting_hour 0..23 and hours_ahead 1..48.
StartingHours == { 9, 11, 12, 13 }
MaxHoursAhead == 3
HoursAhead == 1 .. MaxHoursAhead
CurrentTemperatures == { None, Some(Rat(5, 1)), Some(Rat(9, 2)) }
\* The clock at the query: half past ten, or eleven sharp.
Nows == { [hour |-> 10, on_the_hour |-> FALSE], [hour |-> 11, on_the_hour |-> TRUE] }

\* A coordinator after async_setup with a loaded table, before any forecast
\* was fetched: _forecast is None and hourly_forecast does not exist.
InitForecast ==
    /\ buckets \in ForecastTables
    /\ last_temperature = None
    /\ last_energy_kwh = None
    /\ last_running_state = None
    /\ last_update_time = None
    /\ outcome = "none"
    /\ clean = TRUE
    /\ sum_dt = 0
    /\ first_time = None
    /\ query = None
    /\ result = None
    /\ forecast = None
    /\ hourly_forecast = None
    /\ CoordinatorIdle

\* HeatPumpCoordinator.async_refresh_forecast: the provider's list replaces
\* _forecast; a failing provider call raises before the assignment.
AsyncRefreshForecast ==
    /\ result = None
    /\ \/ \E fetched \in ProviderForecasts :
             /\ forecast' = Some(fetched)
             /\ outcome' = "refreshed"
       \/ /\ forecast' = forecast
          /\ outcome' = "refresh_failed"
    /\ UNCHANGED << hourly_forecast, query, result >>
    /\ StoreUnchanged
    /\ CoordinatorUnchanged

\* A forecast sensor update whose failure clears the cached list.
UpdateForecastSensor_clears ==
    /\ result = None
    /\ \/ \E fetched \in ProviderForecasts :
             /\ hourly_forecast' = Some(fetched)
             /\ outcome' = "cached"
       \/ /\ hourly_forecast' = Some(<< >>)
          /\ outcome' = "cache_failed"
    /\ UNCHANGED << forecast, query, result >>
    /\ StoreUnchanged
    /\ CoordinatorUnchanged

\* HeatPumpForecastSensor._async_update_forecast (at async_added_to_hass and
\* every 30 minutes): the provider's list becomes coordinator.hourly_forecast;
\* a failing provider call is logged and leaves the attribute as it was.
UpdateForecastSensor ==
    /\ result = None
    /\ \/ \E fetched \in ProviderForecasts :
             /\ hourly_forecast' = Some(fetched)
             /\ outcome' = "cached"
       \/ /\ hourly_forecast' = hourly_forecast
          /\ outcome' = "cache_failed"
    /\ UNCHANGED << forecast, query, result >>
    /\ StoreUnchanged
    /\ CoordinatorUnchanged

ForecastQuery(kind, starting_hour, hours_ahead, current_temperature, now) ==
    [kind |-> kind, starting_hour |-> starting_hour, hours_ahead |-> hours_ahead,
     current_temperature |-> current_temperature, now |-> now]

\* HeatPumpCoordinator.async_calculate_forecast_energy, as
\* ScheduledForecastEnergySensor calls it.
CalculateForecastEnergy ==
    \E starting_hour \in StartingHours, hours_ahead \in HoursAhead,
       current_temperature \in CurrentTemperatures, now \in Nows :
        /\ result = None
        /\ query' = Some(ForecastQuery("forecast", starting_hour, hours_ahead,
                                       current_temperature, now))
        /\ result' = Some(async_calculate_forecast_energy(
                              buckets, forecast, starting_hour, hours_ahead,
                              current_temperature, now))
        /\ StoreUnchanged
        /\ CoordinatorUnchanged
        /\ CacheUnchanged
        /\ UNCHANGED outcome

\* The calculate_forecast_energy service call.
ServiceCalculateForecastEnergy ==
    \E starting_hour \in StartingHours, hours_ahead \in HoursAhead,
       current_temperature \in CurrentTemperatures, now \in Nows :
        /\ result = None
        /\ query' = Some(ForecastQuery("service_forecast", starting_hour, hours_ahead,
                                       current_temperature, now))
        /\ result' = Some(service_calculate_forecast_energy(
                              buckets, hourly_forecast, starting_hour, hours_ahead,
                              current_temperature, now))
        /\ StoreUnchanged
        /\ CoordinatorUnchanged
        /\ CacheUnchanged
        /\ UNCHANGED outcome

NextForecast ==
    \/ Return
    \/ AsyncRefreshForecast
    \/ UpdateForecastSensor
    \/ CalculateForecastEnergy
    \/ ServiceCalculateForecastEnergy

SpecForecast == InitForecast /\ [][NextForecast]_vars

\* ------------------------------------------------------------ coordinator.py

\* What hass.states.get returns for a sensor: None while the entity has no
\* state object, else a state whose text is a number or is not ("unavailable",
\* "unknown").  The running sensor is compared with "on", never converted.
StateText == [is |-> "text", number |-> 0]
StateNumber(x) == [is |-> "number", number |-> x]
Reading(energy_state, running_state, temp_state) ==
    [energy_state |-> energy_state, running_state |-> running_state,
     temp_state |-> temp_state]

\* The three states a poll or a notification may find: the appliance on at
\* 5 degrees with the counter at 0, on at 10 degrees with the counter at 1,
\* off; a running sensor that is unavailable; and for each sensor a reading
\* without it, for the two converted ones also a reading with a text in its
\* place.
Readings ==
    { Reading(Some(StateNumber(0)), Some("on"), Some(StateNumber(Rat(5, 1)))),
      Reading(Some(StateNumber(1)), Some("on"), Some(StateNumber(Rat(10, 1)))),
      Reading(Some(StateNumber(1)), Some("off"), Some(StateNumber(Rat(10, 1)))),
      Reading(Some(StateNumber(1)), Some("unavailable"), Some(StateNumber(Rat(5, 1)))),
      Reading(None, Some("on"), Some(StateNumber(Rat(5, 1)))),
      Reading(Some(StateText), Some("on"), Some(StateNumber(Rat(5, 1)))),
      Reading(Some(StateNumber(1)), None, Some(StateNumber(Rat(5, 1)))),
      Reading(Some(StateNumber(1)), Some("on"), None),
      Reading(Some(StateNumber(1)), Some("on"), Some(StateText)) }

\* The clock stops at MaxClock.
MaxClock == 1

\* HeatPumpDataManager.to_dict: the whole table as a plain mapping, bucket
\* temperature -> the three totals and last_update; the tracking fields are
\* not part of it.
to_dict(st) ==
    [temp \in BucketKeys |->
        [total_energy_kwh     |-> st.buckets[temp].total_energy_kwh,
         total_time_seconds   |-> st.buckets[temp].total_time_seconds,
         running_time_seconds |-> st.buckets[temp].running_time_seconds,
         last_update          |-> st.buckets[temp].last_update]]

\* HeatPumpDataManager.from_dict: every bucket is rebuilt from its entry of
\* the mapping, a bucket without an entry is zeroed; the tracking fields are
\* left alone.
from_dict(st, data) ==
    [st EXCEPT !.buckets =
        [temp \in BucketKeys |->
            IF temp \in DOMAIN data
            THEN [temperature          |-> temp,
                  total_energy_kwh     |-> data[temp].total_energy_kwh,
                  total_time_seconds   |-> data[temp].total_time_seconds,
                  running_time_seconds |-> data[temp].running_time_seconds,
                  last_update          |-> data[temp].last_update]
            ELSE EmptyBucket(temp)]]

\* async_setup that never hands the loaded mapping to the data manager.
load_ignored(st, data) == st

\* `if data := await self._store.async_load(): self.data_manager.from_dict(data)`
load(st, data) ==
    IF data = None \/ DOMAIN Val(data) = {} THEN st ELSE from_dict(st, Val(data))

\* Lines 53-61 of _async_update_data: a missing state raises UpdateFailed, a
\* text float() rejects raises ValueError, which line 65 turns into
\* UpdateFailed; else the reading is processed.
async_update_data(st, energy_state, running_state, temp_state, timestamp) ==
    IF energy_state = None \/ running_state = None \/ temp_state = None
    THEN [store |-> st, processed |-> FALSE, raised |-> "UpdateFailed"]
    ELSE IF Val(energy_state).is # "number" \/ Val(temp_state).is # "number"
    THEN [store |-> st, processed |-> FALSE, raised |-> "UpdateFailed"]
    ELSE [store |-> process_state_update(st, Val(temp_state).number,
                                         Val(energy_state).number,
                                         Val(running_state) = "on", timestamp),
          processed |-> TRUE,
          raised |-> "none"]

\* Lines 132-147 of _handle_state_change: a missing state returns, a
\* ValueError or TypeError of float() is swallowed; else the reading is
\* processed.
handle_state_change(st, energy_state, running_state, temp_state, timestamp) ==
    IF energy_state = None \/ running_state = None \/ temp_state = None
    THEN [store |-> st, processed |-> FALSE, raised |-> "none"]
    ELSE IF Val(energy_state).is # "number" \/ Val(temp_state).is # "number"
    THEN [store |-> st, processed |-> FALSE, raised |-> "none"]
    ELSE [store |-> process_state_update(st, Val(temp_state).number,
                                         Val(energy_state).number,
                                         Val(running_state) = "on", timestamp),
          processed |-> TRUE,
          raised |-> "none"]

\* _save_data that lets the exception of a failed write out.
save_data_propagates(written) == IF written THEN "none" ELSE "Exception"

\* What _save_data raises once async_save has written or failed: the except
\* clause logs every exception.
save_data(written) == "none"

\* Line 64-65: whatever the body of _async_update_data raises leaves it as
\* UpdateFailed.
update_failed(exception) == IF exception = "none" THEN "none" ELSE "UpdateFailed"

\* One async_save call in flight: who awaits it and the mapping it was given.
Write(by, st) == [by |-> by, data |-> to_dict(st)]

\* The state of the Store after the oldest write: the mapping is on disk, or
\* the write failed and the disk is as before.
written_to(disk, data, written) == IF written THEN Some(data) ELSE disk

Awaited(by) == writes # << >> /\ Head(writes).by = by
InFlight(by) == \E i \in 1 .. Len(writes) : writes[i].by = by

\* A table an earlier run left on disk: 2 s in bucket 5, of which 1 s running
\* for 1 kWh; a mapping that lacks every other bucket.
SavedTables ==
    { [temp \in {5} |->
          [total_energy_kwh |-> 1, total_time_seconds |-> 2,
           running_time_seconds |-> 1, last_update |-> Some(0)]] }

\* A new HeatPumpCoordinator (lines 28-41) over a Store that holds nothing or
\* an earlier table.
InitCoordinator ==
    /\ buckets = NewStore.buckets
    /\ last_temperature = None
    /\ last_energy_kwh = None
    /\ last_running_state = None
    /\ last_update_time = None
    /\ outcome = "none"
    /\ clean = TRUE
    /\ sum_dt = 0
    /\ first_time = None
    /\ query = None
    /\ result = None
    /\ forecast = None
    /\ hourly_forecast = None
    /\ utcnow = 0
    /\ stored \in { None } \cup { Some(data) : data \in SavedTables }
    /\ writes = << >>
    /\ delay_save = FALSE
    /\ phase = "new"
    /\ raised = "none"
    /\ serial = NewStore

SetStore(st) ==
    /\ buckets' = st.buckets
    /\ last_temperature' = st.last_temperature
    /\ last_energy_kwh' = st.last_energy_kwh
    /\ last_running_state' = st.last_running_state
    /\ last_update_time' = st.last_update_time

DataManagerUnchanged ==
    UNCHANGED << buckets, last_temperature, last_energy_kwh, last_running_state,
                 last_update_time >>

GhostsUnchanged ==
    UNCHANGED << outcome, clean, sum_dt, first_time, query, result, forecast,
                 hourly_forecast >>

\* Time passes.
Tick ==
    /\ utcnow < MaxClock
    /\ utcnow' = utcnow + 1
    /\ DataManagerUnchanged
    /\ GhostsUnchanged
    /\ UNCHANGED << stored, writes, delay_save, phase, raised, serial >>

\* async_setup up to its first await of the refresh: the saved table, if
\* any, is loaded into the new data manager.
AsyncSetup ==
    /\ phase = "new"
    /\ SetStore(load(CurrentStore, stored))
    /\ serial' = load(CurrentStore, stored)
    /\ phase' = "loaded"
    /\ GhostsUnchanged
    /\ UNCHANGED << utcnow, stored, writes, delay_save, raised >>

\* _async_update_data up to `await self._save_data()`, as the first refresh
\* of async_setup or as a periodic poll.  A first refresh that raises ends
\* async_setup (ConfigEntryNotReady): this coordinator is given up.
AsyncUpdateData ==
    \E reading \in Readings :
        LET energy_state == reading.energy_state
            running_state == reading.running_state
            temp_state == reading.temp_state
            update == async_update_data(CurrentStore, energy_state, running_state,
                                        temp_state, utcnow)
        IN  /\ phase \in {"loaded", "running", "stopping"}
            /\ ~InFlight("poll")
            /\ IF update.processed
               THEN /\ SetStore(update.store)
                    /\ serial' = process_state_update(
                                     serial, Val(temp_state).number,
                                     Val(energy_state).number,
                                     Val(running_state) = "on", utcnow)
                    /\ writes' = Append(writes, Write("poll", update.store))
                    /\ phase' = IF phase = "loaded" THEN "first_refresh" ELSE phase
                    /\ UNCHANGED raised
               ELSE /\ raised' = update.raised
                    /\ phase' = IF phase = "loaded" THEN "not_ready" ELSE phase
                    /\ DataManagerUnchanged
                    /\ UNCHANGED << writes, serial >>
            /\ GhostsUnchanged
            /\ UNCHANGED << utcnow, stored, delay_save >>

\* The rest of a poll that holds the table across the await: it puts back
\* the buckets it serialized before the save.
PollSaved_writes_back ==
    \E written \in BOOLEAN :
        /\ Awaited("poll")
        /\ stored' = written_to(stored, Head(writes).data, written)
        /\ writes' = Tail(writes)
        /\ raised' = update_failed(save_data(written))
        /\ phase' = IF phase = "first_refresh" THEN "running" ELSE phase
        /\ SetStore(from_dict(CurrentStore, Head(writes).data))
        /\ GhostsUnchanged
        /\ UNCHANGED << utcnow, delay_save, serial >>

\* The rest of _async_update_data: the awaited save has written or failed,
\* the data is returned.  After the first refresh async_setup goes on to
\* register the state listener and the stop listener.
PollSaved ==
    \E written \in BOOLEAN :
        /\ Awaited("poll")
        /\ stored' = written_to(stored, Head(writes).data, written)
        /\ writes' = Tail(writes)
        /\ raised' = update_failed(save_data(written))
        /\ phase' = IF phase = "first_refresh" THEN "running" ELSE phase
        /\ DataManagerUnchanged
        /\ GhostsUnchanged
        /\ UNCHANGED << utcnow, delay_save, serial >>

\* _handle_state_change, called while the state listener is registered: a
\* processed reading schedules the debounced save.
HandleStateChange ==
    \E reading \in Readings :
        LET energy_state == reading.energy_state
            running_state == reading.running_state
            temp_state == reading.temp_state
            change == handle_state_change(CurrentStore, energy_state, running_state,
                                          temp_state, utcnow)
        IN  /\ phase \in {"running", "stopping", "closing"}
            /\ SetStore(change.store)
            /\ serial' = IF change.processed
                         THEN process_state_update(
                                  serial, Val(temp_state).number,
                                  Val(energy_state).number,
                                  Val(running_state) = "on", utcnow)
                         ELSE serial
            /\ delay_save' = (delay_save \/ change.processed)
            /\ raised' = change.raised
            /\ GhostsUnchanged
            /\ UNCHANGED << utcnow, stored, writes, phase >>

\* The write async_delay_save scheduled: the Store calls to_dict when the
\* delay is over and writes the result, or fails to.
DelayedSave ==
    \E written \in BOOLEAN :
        /\ delay_save
        /\ delay_save' = FALSE
        /\ stored' = written_to(stored, to_dict(CurrentStore), written)
        /\ DataManagerUnchanged
        /\ GhostsUnchanged
        /\ UNCHANGED << utcnow, writes, phase, raised, serial >>

\* _handle_hass_stop up to its await: the stop event, delivered once.
HandleHassStop ==
    /\ phase = "running"
    /\ phase' = "stopping"
    /\ writes' = Append(writes, Write("stop", CurrentStore))
    /\ DataManagerUnchanged
    /\ GhostsUnchanged
    /\ UNCHANGED << utcnow, stored, delay_save, raised, serial >>

\* The rest of _handle_hass_stop.
StopSaved ==
    \E written \in BOOLEAN :
        /\ Awaited("stop")
        /\ stored' = written_to(stored, Head(writes).data, written)
        /\ writes' = Tail(writes)
        /\ raised' = save_data(written)
        /\ DataManagerUnchanged
        /\ GhostsUnchanged
        /\ UNCHANGED << utcnow, delay_save, phase, serial >>

\* async_shutdown up to `await self._save_data()`; async_unload_entry calls
\* it when the platforms are unloaded, so no poll is started after it.
AsyncShutdown ==
    /\ phase = "running"
    /\ phase' = "closing"
    /\ writes' = Append(writes, Write("shutdown", CurrentStore))
    /\ DataManagerUnchanged
    /\ GhostsUnchanged
    /\ UNCHANGED << utcnow, stored, delay_save, raised, serial >>

\* The rest of async_shutdown: the save has written or failed, the two
\* listeners are removed.
ShutdownSaved ==
    \E written \in BOOLEAN :
        /\ Awaited("shutdown")
        /\ stored' = written_to(stored, Head(writes).data, written)
        /\ writes' = Tail(writes)
        /\ raised' = save_data(written)
        /\ phase' = "closed"
        /\ DataManagerUnchanged
        /\ GhostsUnchanged
        /\ UNCHANGED << utcnow, delay_save, serial >>

NextCoordinator ==
    \/ Tick
    \/ AsyncSetup
    \/ AsyncUpdateData
    \/ PollSaved
    \/ HandleStateChange
    \/ DelayedSave
    \/ HandleHassStop
    \/ StopSaved
    \/ AsyncShutdown
    \/ ShutdownSaved

SpecCoordinator == InitCoordinator /\ [][NextCoordinator]_vars

\* ------------------------------------------------------------ claims: accumulator

HasBaseline == last_update_time # None
Dt(timestamp) == timestamp - Val(last_update_time)
DE(current_energy_kwh) == current_energy_kwh - Val(last_energy_kwh)
\* The store a call with these arguments would leave, from the current state.
After(t, e, r, ts) == process_state_update(CurrentStore, t, e, r, ts)

RECURSIVE SumField(_, _, _)
SumField(b, field, keys) ==
    IF keys = {} THEN 0
    ELSE LET k == CHOOSE x \in keys : TRUE
         IN  b[k][field] + SumField(b, field, keys \ {k})

Populated(k) == buckets[k].total_time_seconds > 0
OnlyPopulated(keys) == \A k \in BucketKeys : Populated(k) <=> k \in keys

\* C1: a call with a baseline, dt > 0 and dE >= 0 adds the whole dt to
\* total_time_seconds of the bucket of the PREVIOUS temperature (the stored
\* one, not the one passed in), and changes no field of any other bucket.
C1_IntervalGoesToPreviousBucket ==
    \A t \in Temps, e \in Energies, r \in BOOLEAN, ts \in Timestamps :
        (HasBaseline /\ Dt(ts) > 0 /\ DE(e) >= 0) =>
            LET a == After(t, e, r, ts).buckets
                k == get_bucket(Val(last_temperature))
            IN  /\ a[k].total_time_seconds = buckets[k].total_time_seconds + Dt(ts)
                /\ \A j \in BucketKeys \ {k} : a[j] = buckets[j]

\* Readings at 5 then 10: the first interval is in bucket 5, bucket 10 is empty.
C1_Witness ==
    /\ outcome = "attributed"
    /\ last_temperature = Some(Rat(10, 1))
    /\ OnlyPopulated({5})
    /\ buckets[10] = EmptyBucket(10)

\* C2: while every call after the first had dt > 0 and dE >= 0, the total time
\* over all buckets is the sum of those dt, and the running time over all
\* buckets is at most the total time.
C2_TotalTimeIsSumOfDt ==
    clean =>
        /\ SumField(buckets, "total_time_seconds", BucketKeys) = sum_dt
        /\ SumField(buckets, "running_time_seconds", BucketKeys)
               <= SumField(buckets, "total_time_seconds", BucketKeys)

C2_Witness ==
    /\ clean
    /\ sum_dt = 2
    /\ OnlyPopulated({-1, 10})
    /\ SumField(buckets, "running_time_seconds", BucketKeys) = 1

\* C3: in every reachable state (first, valid, rejected and counter-reset
\* calls in any order) every bucket has 0 <= running_time <= total_time.
C3_RunningWithinTotal ==
    \A k \in BucketKeys :
        /\ 0 <= buckets[k].running_time_seconds
        /\ buckets[k].running_time_seconds <= buckets[k].total_time_seconds

C3_Witness ==
    /\ ~clean
    /\ \E k \in BucketKeys :
          /\ buckets[k].running_time_seconds = 1
          /\ buckets[k].total_time_seconds = 2

\* C4: in a valid attribution step running_time grows by dt and total_energy by
\* dE in the previous-temperature bucket exactly when the STORED running flag
\* is true and dE > 0; otherwise no bucket's running_time or total_energy
\* changes.  The is_running argument of the call has no influence on buckets.
C4_RunningNeedsStoredFlagAndEnergy ==
    \A t \in Temps, e \in Energies, ts \in Timestamps :
        (HasBaseline /\ Dt(ts) > 0 /\ DE(e) >= 0) =>
            LET a == After(t, e, TRUE, ts).buckets
                k == get_bucket(Val(last_temperature))
            IN  /\ After(t, e, FALSE, ts).buckets = a
                /\ IF Val(last_running_state) /\ DE(e) > 0
                   THEN /\ a[k].running_time_seconds
                              = buckets[k].running_time_seconds + Dt(ts)
                        /\ a[k].total_energy_kwh
                              = buckets[k].total_energy_kwh + DE(e)
                   ELSE \A j \in BucketKeys :
                        /\ a[j].running_time_seconds = buckets[j].running_time_seconds
                        /\ a[j].total_energy_kwh = buckets[j].total_energy_kwh

\* An interval with the stored flag on and dE = 0 was attributed as idle, and
\* the flag passed in that call was off after an interval that did run.
C4_Witness ==
    /\ outcome = "attributed"
    /\ \E k \in BucketKeys :
          /\ buckets[k].total_time_seconds = 2
          /\ buckets[k].running_time_seconds = 1
          /\ buckets[k].total_energy_kwh = 1
    /\ last_running_state = Some(FALSE)

\* C5: the first observation of a store only records the baseline: the four
\* tracking fields take its values and no field of any bucket changes.
C5_FirstOnlyRecordsBaseline ==
    /\ ~HasBaseline =>
          \A t \in Temps, e \in Energies, r \in BOOLEAN, ts \in Timestamps :
              After(t, e, r, ts) =
                  Store(buckets, Some(t), Some(e), Some(r), Some(ts))
    /\ outcome = "first" => buckets = NewStore.buckets /\ HasBaseline

C5_Witness ==
    /\ outcome = "first"
    /\ last_temperature = Some(Rat(-1, 2))
    /\ last_energy_kwh = Some(1)
    /\ last_running_state = Some(TRUE)
    /\ last_update_time = Some(1)
    /\ buckets = NewStore.buckets

\* C6: an observation with dt <= 0, whatever its energy, changes no bucket
\* field and none of the four tracking fields.
C6_RejectedIsNoOp ==
    \A t \in Temps, e \in Energies, r \in BOOLEAN, ts \in Timestamps :
        (HasBaseline /\ Dt(ts) <= 0) => After(t, e, r, ts) = CurrentStore

\* A rejection after a counter went up: lower energies were among the inputs.
C6_Witness ==
    /\ outcome = "rejected"
    /\ last_energy_kwh = Some(1)
    /\ last_update_time = Some(2)
    /\ \E k \in BucketKeys : Populated(k)

\* C7: an observation with dt > 0 and dE < 0 changes no field of any bucket and
\* sets the energy baseline to the new counter value.
C7_ResetMovesEnergyBaselineOnly ==
    \A t \in Temps, e \in Energies, r \in BOOLEAN, ts \in Timestamps :
        (HasBaseline /\ Dt(ts) > 0 /\ DE(e) < 0) =>
            /\ After(t, e, r, ts).buckets = buckets
            /\ After(t, e, r, ts).last_energy_kwh = Some(e)

C7_Witness ==
    /\ outcome = "reset"
    /\ last_energy_kwh = Some(0)
    /\ \E k \in BucketKeys : buckets[k].total_energy_kwh = 1

\* C8: after every call that is not rejected for dt <= 0 (first, valid and
\* counter reset alike) all four tracking fields equal the call's observation.
C8_BaselineIsObservation ==
    \A t \in Temps, e \in Energies, r \in BOOLEAN, ts \in Timestamps :
        return_point(CurrentStore, e, ts) # "rejected" =>
            LET a == After(t, e, r, ts)
            IN  /\ a.last_temperature = Some(t)
                /\ a.last_energy_kwh = Some(e)
                /\ a.last_running_state = Some(r)
                /\ a.last_update_time = Some(ts)

\* ------------------------------------------------------------ claims: estimator

Answered == result # None /\ Val(result).status = "ok"
PointQuery == Val(query).kind \in {"estimate", "service_estimate"}

\* k = floor(r), stated without \div.
IsFloorOf(k, r) == k * r.den <= r.num /\ r.num < (k + 1) * r.den

\* C9: get_bucket(t) = max(MIN_TEMP, min(MAX_TEMP, floor(t))): always a bucket
\* key; fractional values round toward minus infinity (5.9 -> 5, -0.5 -> -1);
\* out-of-range values clamp (-30 -> MIN_TEMP, 30.1 -> MAX_TEMP).
C9_GetBucketIsClampedFloor ==
    (Answered /\ PointQuery) =>
        LET t == Val(query).temperature
            b == Val(result).temperature_bucket
        IN  /\ b \in BucketKeys
            /\ RatLess(t, RatInt(MIN_TEMP)) => b = MIN_TEMP
            /\ RatLeq(RatInt(MAX_TEMP + 1), t) => b = MAX_TEMP
            /\ (RatLeq(RatInt(MIN_TEMP), t) /\ RatLess(t, RatInt(MAX_TEMP + 1)))
                   => IsFloorOf(b, t)
            /\ t = Rat(59, 10) => b = 5
            /\ t = Rat(-1, 2) => b = -1
            /\ t = Rat(-30, 1) => b = MIN_TEMP
            /\ t = Rat(301, 10) => b = MAX_TEMP

C9_Witness ==
    /\ Answered
    /\ Val(query) = [kind |-> "estimate", temperature |-> Rat(-1, 2)]
    /\ Val(result).temperature_bucket = -1
    /\ ~Val(result).approximated

\* C10: a successful estimate for a temperature whose bucket has no recorded
\* time is approximated, with confidence "approximated" and a source bucket
\* that has total_time > 0; approximated = false comes only with a populated
\* queried bucket and then without a source.  interpolate_estimation is
\* approximated whenever the bucket of either integer endpoint is empty.
C10_EmptyBucketIsApproximated ==
    Answered =>
        LET t == Val(query).temperature
            r == Val(result)
        IN  IF PointQuery
            THEN /\ buckets[get_bucket(t)].total_time_seconds = 0 =>
                        /\ r.approximated
                        /\ r.confidence = "approximated"
                        /\ r.approximation_source # None
                        /\ buckets[Val(r.approximation_source)].total_time_seconds > 0
                 /\ ~r.approximated =>
                        /\ buckets[get_bucket(t)].total_time_seconds > 0
                        /\ r.approximation_source = None
            ELSE (\/ buckets[clamp(Floor(t))].total_time_seconds = 0
                  \/ buckets[clamp(Ceil(t))].total_time_seconds = 0)
                     => r.approximated

\* Query 5.9 with bucket 5 empty and buckets 4 and 6 populated.
C10_Witness ==
    /\ Answered
    /\ Val(query) = [kind |-> "estimate", temperature |-> Rat(59, 10)]
    /\ buckets[5].total_time_seconds = 0
    /\ buckets[4].total_time_seconds > 0
    /\ buckets[6].total_time_seconds > 0
    /\ Val(result).approximated
    /\ Val(result).approximation_source = Some(6)

\* ------------------------------------------------------------ claims: estimator failures

AllEmpty == \A k \in BucketKeys : buckets[k].total_time_seconds = 0
StoreFields ==
    << buckets, last_temperature, last_energy_kwh, last_running_state,
       last_update_time >>

\* C11: a point estimate (of the calculator or of the service) fails, with the
\* "no data available" condition, exactly when every bucket has total_time 0;
\* with any bucket populated it succeeds for every queried temperature.  The
\* failing call changes no bucket and no baseline field.
C11_FailsIffNoData ==
    [][ (result = None /\ result' # None /\ Val(query').kind \in
             {"estimate", "service_estimate"}) =>
            /\ Val(result').status \in
                   {"ok", "ValueError", "no_data_for_approximation"}
            /\ Val(result').status # "ok" <=> AllEmpty
            /\ Val(result').status # "ok" => StoreFields' = StoreFields ]_vars

\* The service's point estimate failed on a table without any recorded time.
C11_Witness ==
    /\ result # None
    /\ Val(query) = [kind |-> "service_estimate", temperature |-> Rat(5, 1)]
    /\ Val(result).status = "no_data_for_approximation"
    /\ AllEmpty

\* ------------------------------------------------------------ claims: approximation source

\* The populated bucket indexes at the smallest absolute distance from 0.
NearestToZero ==
    { s \in BucketKeys :
        /\ Populated(s)
        /\ \A j \in BucketKeys : Populated(j) => Abs(s) <= Abs(j) }

InServiceRange(t) == RatLeq(RatInt(MIN_TEMP), t) /\ RatLeq(t, RatInt(MAX_TEMP))

\* C12: in the service's point estimate (_estimate_power_for_temperature) the
\* source of an approximation is the populated bucket whose index is nearest
\* to 0, whatever temperature is queried: on one table, queries for any two
\* empty buckets report the same source.
C12_ServiceSourceNearestToZero ==
    (Answered /\ Val(query).kind = "service_estimate" /\ Val(result).approximated) =>
        /\ Val(result).approximation_source # None
        /\ Val(Val(result).approximation_source) \in NearestToZero
        /\ \A t2 \in QueryTemps :
               (InServiceRange(t2) /\ ~Populated(get_bucket(t2))) =>
                   service_estimate_power_for_temperature(buckets, t2).approximation_source
                       = Val(result).approximation_source

\* Query 5.9 with buckets 4 and 6 the only populated ones: the source is 4,
\* although bucket 6 is nearer to the query.
C12_Witness ==
    /\ Answered
    /\ Val(query) = [kind |-> "service_estimate", temperature |-> Rat(59, 10)]
    /\ OnlyPopulated({4, 6})
    /\ Val(result).approximated
    /\ Val(result).approximation_source = Some(4)

\* C13: in HeatPumpCalculator.estimate_power_for_temperature (the estimator
\* behind interpolate_estimation and the coordinator's forecast) the source of
\* an approximation is the populated bucket whose index is nearest to 0, not
\* the one nearest to the queried temperature.
C13_CalculatorSourceNearestToZero ==
    (Answered /\ Val(query).kind = "estimate" /\ Val(result).approximated) =>
        /\ Val(result).approximation_source # None
        /\ Val(Val(result).approximation_source) \in NearestToZero

\* ------------------------------------------------------------ claims: approximation formula

\* max(0.1, 1.0 - 0.20 * d)
FlooredSlope(d) == RatMax(Rat(1, 10), RatSub(RatInt(1), RatMul(Rat(20, 100), d)))

\* C14: an estimate approximated from source bucket s for target temperature
\* t has multiplier max(0.1, 1 - 0.20 (t - s)) when t <= 25 and
\* max(0.1, 1 - 0.20 (25 - s)) * (1 + 0.20 (t - 25)) when t > 25; its overall
\* and running power are the source's averages times the multiplier; its duty
\* cycle and data-hours are the source's own, unscaled.
C14_ApproximationFormula ==
    (Answered /\ PointQuery /\ Val(result).approximated) =>
        LET t == Val(query).temperature
            r == Val(result)
            s == Val(r.approximation_source)
            m == IF RatLeq(t, RatInt(25))
                 THEN FlooredSlope(RatSub(t, RatInt(s)))
                 ELSE RatMul(FlooredSlope(RatInt(25 - s)),
                             RatAdd(RatInt(1),
                                    RatMul(Rat(20, 100), RatSub(t, RatInt(25)))))
        IN  /\ r.power_overall_w = RatMul(average_power_overall(buckets[s]), m)
            /\ r.power_running_w = RatMul(average_power_when_running(buckets[s]), m)
            /\ r.duty_cycle_percent = duty_cycle_percent(buckets[s])
            /\ r.data_points_hours = Norm(buckets[s].total_time_seconds, 3600)

\* Query 30.1 approximated from bucket 6 (200 W, running all of its 30 hours):
\* 200 * 0.1 * 2.02 = 40.4 W; duty cycle 100 and 30 data-hours are bucket 6's.
C14_Witness ==
    /\ Answered
    /\ Val(query) = [kind |-> "estimate", temperature |-> Rat(301, 10)]
    /\ Val(result).approximation_source = Some(6)
    /\ Val(result).power_overall_w = Rat(202, 5)
    /\ Val(result).power_running_w = Rat(202, 5)
    /\ Val(result).duty_cycle_percent = RatInt(100)
    /\ Val(result).data_points_hours = RatInt(30)

\* ------------------------------------------------------------ claims: interpolation

Interpolated == Val(query).kind \in {"interpolate", "service_interpolate"}

\* The point estimate of the estimator the current query belongs to.
PointEstimateAt(t) ==
    IF Val(query).kind \in {"estimate", "interpolate"}
    THEN estimate_power_for_temperature(buckets, t)
    ELSE service_estimate_power_for_temperature(buckets, t)

SameOutcome(r, e) ==
    /\ r.status = e.status
    /\ r.status = "ok" =>
          /\ r.power_overall_w = e.power_overall_w
          /\ r.power_running_w = e.power_running_w
          /\ r.duty_cycle_percent = e.duty_cycle_percent
          /\ r.confidence = e.confidence
          /\ r.approximated = e.approximated
          /\ r.approximation_source = e.approximation_source
          /\ r.data_points_hours = e.data_points_hours

\* C15: for every integer temperature k and every table, the interpolated
\* estimate at k has the outcome of the point estimate at k: the same powers,
\* duty cycle, confidence, approximated flag, source and data-hours, or the
\* same "no data" failure.
C15_IntegerInterpolationIsPointEstimate ==
    (result # None /\ Interpolated /\ Val(query).temperature.den = 1) =>
        SameOutcome(Val(result), PointEstimateAt(Val(query).temperature))

\* interpolate_estimation(5) with bucket 5 populated (100 W, medium) and bucket
\* 6 empty: the answer is bucket 5's own and not approximated.
C15_Witness ==
    /\ Answered
    /\ Val(query) = [kind |-> "interpolate", temperature |-> Rat(5, 1)]
    /\ buckets[5].total_time_seconds = 36000
    /\ ~Populated(6)
    /\ ~Val(result).approximated
    /\ Val(result).confidence = "medium"
    /\ Val(result).power_overall_w = RatInt(100)

Yields(t, watts) ==
    /\ PointEstimateAt(RatInt(t)).status = "ok"
    /\ PointEstimateAt(RatInt(t)).power_overall_w = RatInt(watts)

\* C16 as stated: if bucket 4 yields an overall power of 100 W and bucket 6
\* yields 200 W, the interpolated estimate at 5 is 150 W.
C16_MidpointOfFourAndSix ==
    (Answered /\ Interpolated /\ Val(query).temperature = Rat(5, 1)
        /\ Yields(4, 100) /\ Yields(6, 200)) =>
            Val(result).power_overall_w = RatInt(150)

\* C16, amended: interpolation blends the two ADJACENT integer buckets: if
\* bucket 4 yields an overall power of 100 W and bucket 5 yields 200 W, the
\* interpolated estimate at 4.5 is 150 W.
C16_MidpointOfAdjacentBuckets ==
    (Answered /\ Interpolated /\ Val(query).temperature = Rat(9, 2)
        /\ Yields(4, 100) /\ Yields(5, 200)) =>
            Val(result).power_overall_w = RatInt(150)

C16_Witness ==
    /\ Answered
    /\ Val(query) = [kind |-> "interpolate", temperature |-> Rat(9, 2)]
    /\ buckets[4].total_time_seconds = 36000
    /\ buckets[5].total_time_seconds = 108000
    /\ Yields(4, 100)
    /\ Yields(5, 200)
    /\ Val(result).power_overall_w = RatInt(150)

\* e_lower + (e_upper - e_lower) * w
Blend(e_lower, e_upper, w) == RatAdd(e_lower, RatMul(RatSub(e_upper, e_lower), w))

Between(x, a, b) ==
    \/ RatLeq(a, x) /\ RatLeq(x, b)
    \/ RatLeq(b, x) /\ RatLeq(x, a)

BlendedField(r, e_lower, e_upper, w, field) ==
    /\ r[field] = Blend(e_lower[field], e_upper[field], w)
    /\ Between(r[field], e_lower[field], e_upper[field])

\* C17: for a non-integer temperature t with lower = clamp(floor t) different
\* from upper = clamp(ceil t), the interpolated overall power, running power
\* and duty cycle each equal e_lower + (e_upper - e_lower) * w with
\* w = (t - lower) / (upper - lower), e_lower and e_upper being the point
\* estimates at the endpoints; each lies between the two endpoint values.
C17_LinearBlendOfEndpoints ==
    (Answered /\ Interpolated
        /\ clamp(Floor(Val(query).temperature)) # clamp(Ceil(Val(query).temperature))) =>
        LET t == Val(query).temperature
            lower == clamp(Floor(t))
            upper == clamp(Ceil(t))
            w == RatDiv(RatSub(t, RatInt(lower)), RatInt(upper - lower))
        IN  \A field \in {"power_overall_w", "power_running_w", "duty_cycle_percent"} :
                BlendedField(Val(result), PointEstimateAt(RatInt(lower)),
                             PointEstimateAt(RatInt(upper)), w, field)

\* 5.9 between bucket 5 (100 W overall, 200 W running, duty 50) and bucket 6
\* (200 W, 200 W, duty 100): w = 0.9 gives 190 W, 200 W and 95.
C17_Witness ==
    /\ Answered
    /\ Val(query) = [kind |-> "service_interpolate", temperature |-> Rat(59, 10)]
    /\ buckets[5].total_time_seconds = 36000
    /\ buckets[6].total_time_seconds = 108000
    /\ Val(result).power_overall_w = RatInt(190)
    /\ Val(result).power_running_w = RatInt(200)
    /\ Val(result).duty_cycle_percent = RatInt(95)

\* ------------------------------------------------------------ claims: forecast

Forecasted == Val(query).kind \in {"forecast", "service_forecast"}
Projected == result # None /\ Val(result).status = "ok"

\* The interpolated overall power the query's estimator gives for a forecast
\* temperature.
PowerAt(t) ==
    IF Val(query).kind = "forecast"
    THEN interpolate_estimation(buckets, t).power_overall_w
    ELSE service_interpolate_estimation(buckets, t).power_overall_w

\* The factor as the claim words it; 0.20 / 1.5 = 2/15.
ClaimedTrendFactor(delta) ==
    IF delta = None THEN RatInt(1)
    ELSE IF Val(delta) = RatInt(0) THEN RatInt(1)
    ELSE IF RatLeq(Val(delta), Rat(-3, 2)) THEN Rat(6, 5)
    ELSE IF RatLeq(Rat(3, 2), Val(delta)) THEN Rat(4, 5)
    ELSE IF RatLess(Val(delta), RatInt(0))
    THEN RatAdd(RatInt(1), RatMul(Rat(2, 15), RatAbs(Val(delta))))
    ELSE RatSub(RatInt(1), RatMul(Rat(2, 15), RatAbs(Val(delta))))

CacheOf(kind) == IF kind = "forecast" THEN forecast ELSE hourly_forecast

NothingCached(cached) == cached = None \/ Val(cached) = << >>

\* The entries of a non-empty cache from the start entry of query q on exist
\* but are fewer than q.hours_ahead.
ShortWindow(cached, q) ==
    LET parsed == parse_forecast(Val(cached), 1, << >>)
        indexes == start_indexes(parsed, q.starting_hour, q.now)
    IN  /\ indexes # {}
        /\ \A idx \in indexes :
               (\A other \in indexes : idx <= other) =>
                   Len(parsed) - idx + 1 < q.hours_ahead

\* C19: a forecast-energy query (of the coordinator or of the service) fails
\* with forecast_unavailable when no forecast has been cached or the cached
\* forecast is empty, and with forecast_window_too_small when fewer than
\* hours_ahead entries are available from the start entry; when it succeeds
\* hours_returned = hours_requested.  A failing query returns nothing and
\* changes no bucket, no baseline field and no cached forecast.
C19_ForecastFailures ==
    [][ (result = None /\ result' # None
            /\ Val(query').kind \in {"forecast", "service_forecast"}) =>
          LET q == Val(query')
              r == Val(result')
              cached == CacheOf(q.kind)
          IN  /\ NothingCached(cached) => r.status = "forecast_unavailable"
              /\ (~NothingCached(cached) /\ ShortWindow(cached, q))
                     => r.status = "forecast_window_too_small"
              /\ r.status = "ok" =>
                     /\ r.hours_requested = q.hours_ahead
                     /\ r.hours_returned = r.hours_requested
              /\ r.status # "ok" =>
                     /\ DOMAIN r = {"status"}
                     /\ StoreFields' = StoreFields
                     /\ forecast' = forecast
                     /\ hourly_forecast' = hourly_forecast ]_vars

\* Hour i of the projection has the delta `temperature - previous` (null
\* without a previous temperature) and the energy power / 1000 times the
\* trend factor of that delta, as reported: rounded to three decimals.
HourFollows(h, previous) ==
    /\ h.temperature_delta =
           IF previous = None THEN None ELSE Some(RatSub(h.temperature, Val(previous)))
    /\ h.energy_kwh =
           round3(RatMul(RatDiv(PowerAt(h.temperature), RatInt(1000)),
                         ClaimedTrendFactor(h.temperature_delta)))

LaterHoursFollow(hours) ==
    \A i \in 2 .. Len(hours) : HourFollows(hours[i], Some(hours[i - 1].temperature))

\* C20 as stated: the delta of the first sample of the window is its
\* temperature minus the supplied current temperature, or null when none was
\* supplied; the delta of every later sample is its temperature minus that of
\* the sample before it; each hour's energy is the interpolated overall power
\* / 1000 times the trend factor of its delta.
C20_FirstDeltaFromCurrentTemperature ==
    (Projected /\ Forecasted) =>
        /\ HourFollows(Val(result).hours[1], Val(query).current_temperature)
        /\ LaterHoursFollow(Val(result).hours)

\* The temperature of the cached entry just before the one dated `datetime`,
\* in chronological order.
EntryBefore(datetime) ==
    LET parsed == parse_forecast(Val(forecast), 1, << >>)
        idx == CHOOSE i \in 1 .. Len(parsed) : Val(parsed[i].datetime) = datetime
    IN  IF idx > 1 THEN Some(parsed[idx - 1].temperature.number) ELSE None

\* The seed of the first delta: the service always takes the current
\* temperature; the coordinator takes it only for a window that starts at the
\* next full hour, and otherwise the forecast entry before the window.
StartingTemperature ==
    IF \/ Val(query).kind = "service_forecast"
       \/ Val(result).hours[1].datetime = Val(query).now.hour + 1
    THEN Val(query).current_temperature
    ELSE EntryBefore(Val(result).hours[1].datetime)

\* C20, amended: the delta of the first sample is its temperature minus the
\* starting temperature, which is the supplied current temperature (null when
\* none was supplied) in the service, and in the coordinator too when the
\* window starts at the next full hour; for any other window the coordinator
\* starts from the temperature of the forecast entry just before the window.
\* Later deltas and every hour's energy are as stated.
C20_FirstDeltaFromStartingTemperature ==
    (Projected /\ Forecasted) =>
        /\ HourFollows(Val(result).hours[1], StartingTemperature)
        /\ LaterHoursFollow(Val(result).hours)

\* At half past ten the coordinator projects hours 12 (4.5) and 13 (6) with
\* current temperature 4.5: the first delta is -0.5, against hour 11 (5), and
\* the first hour's energy 90 W / 1000 * 16/15 = 0.096 kWh.
C20_Witness ==
    /\ Projected
    /\ Val(query) = ForecastQuery("forecast", 12, 2, Some(Rat(9, 2)),
                                  [hour |-> 10, on_the_hour |-> FALSE])
    /\ Val(result).hours[1].temperature = Rat(9, 2)
    /\ Val(result).hours[1].temperature_delta = Some(Rat(-1, 2))
    /\ Val(result).hours[1].energy_kwh = Rat(12, 125)
    /\ Val(result).hours[2].temperature_delta = Some(Rat(3, 2))

\* ------------------------------------------------------------ claims: failures

TypedFailures ==
    { "forecast_unavailable", "forecast_window_too_small", "forecast_hour_missing",
      "no_data_for_approximation" }

\* The entries query q asks for, when the cache it reads holds enough of them
\* from its start entry on; << >> otherwise.
RequestedWindow(cached, q) ==
    LET parsed == parse_forecast(Val(cached), 1, << >>)
        indexes == start_indexes(parsed, q.starting_hour, q.now)
        first == IF indexes = {} THEN 0
                 ELSE CHOOSE idx \in indexes : \A other \in indexes : idx <= other
    IN  IF first = 0 \/ Len(parsed) - first + 1 < q.hours_ahead THEN << >>
        ELSE window_slice(parsed, first, q.hours_ahead)

\* The window's first entry without a numeric temperature comes before any
\* hour the table cannot estimate (the table has data, so none can fail).
UnusableHour(window) ==
    /\ \E i \in 1 .. Len(window) : window[i].temperature.is # "number"
    /\ ~AllEmpty

\* C21: a forecast query that fails does so with one of the typed conditions
\* (forecast_unavailable, forecast_window_too_small, forecast_hour_missing,
\* no_data_for_approximation), never with an untyped exception; and a window
\* holding an entry whose temperature is missing or not a number makes the
\* query fail with forecast_hour_missing.
C21_FailuresAreTyped ==
    (result # None /\ Forecasted) =>
        LET q == Val(query)
            r == Val(result)
            cached == CacheOf(q.kind)
        IN  /\ r.status # "ok" => r.status \in TypedFailures
            /\ (~NothingCached(cached) /\ UnusableHour(RequestedWindow(cached, q)))
                   => r.status = "forecast_hour_missing"

\* A step of one of the two forecast refreshes: no query is open before or
\* after it.
RefreshStep == result = None /\ result' = None

RefreshFailed == outcome \in {"refresh_failed", "cache_failed"}

\* C25: a forecast refresh that fails leaves both cached forecasts as they
\* were, and no refresh changes a bucket or a baseline field; a refresh that
\* succeeds puts the fetched list in place of the cache it fills.  A query
\* after a failed refresh is answered from the forecast cached before it.
C25_FailedRefreshKeepsCache ==
    [][ RefreshStep =>
          /\ StoreFields' = StoreFields
          /\ RefreshFailed' => (forecast' = forecast /\ hourly_forecast' = hourly_forecast)
          /\ (outcome' = "refreshed" /\ forecast' # forecast) =>
                 (forecast' \in { Some(f) : f \in ProviderForecasts }
                      /\ hourly_forecast' = hourly_forecast)
          /\ (outcome' = "cached" /\ hourly_forecast' # hourly_forecast) =>
                 (hourly_forecast' \in { Some(f) : f \in ProviderForecasts }
                      /\ forecast' = forecast) ]_vars

\* The refresh failed with four hours cached, and the three-hour query that
\* follows is answered from them.
C25_Witness ==
    /\ RefreshFailed
    /\ Projected
    /\ Forecasted
    /\ Val(CacheOf(Val(query).kind)) # << >>
    /\ Val(result).hours_returned = 3

\* C30: once the forecast sensor has cached a forecast that is not empty, a
\* forecast-energy query, of the service or of the coordinator method
\* ScheduledForecastEnergySensor calls, reads that cached forecast and does
\* not fail with forecast_unavailable.
C30_QueriesReadSensorCache ==
    (result # None /\ Forecasted /\ ~NothingCached(hourly_forecast)) =>
        /\ Val(result).status # "forecast_unavailable"
        /\ CacheOf(Val(query).kind) = hourly_forecast

\* ------------------------------------------------------------ claims: elapsed time

TotalTime(b) == SumField(b, "total_time_seconds", BucketKeys)

\* The store after a counter-reset observation (t1, e1, r1, ts1) followed by
\* an observation at ts2 with the counter at e2.
AfterReset(t1, e1, r1, ts1, e2, ts2) ==
    process_state_update(After(t1, e1, r1, ts1), t1, e2, r1, ts2)

RoundTrip == from_dict(NewStore, to_dict(CurrentStore))

SameTotals(a, b) ==
    /\ a.total_energy_kwh = b.total_energy_kwh
    /\ a.total_time_seconds = b.total_time_seconds
    /\ a.running_time_seconds = b.running_time_seconds

SameMetrics(a, b) ==
    /\ average_power_when_running(a) = average_power_when_running(b)
    /\ average_power_overall(a) = average_power_overall(b)
    /\ duty_cycle_percent(a) = duty_cycle_percent(b)

NoBaseline(st) ==
    /\ st.last_temperature = None
    /\ st.last_energy_kwh = None
    /\ st.last_running_state = None
    /\ st.last_update_time = None

\* The rehydrated store `back` against the current one.
Reproduces(back) ==
    /\ \A k \in BucketKeys :
           /\ SameTotals(back.buckets[k], buckets[k])
           /\ SameMetrics(back.buckets[k], buckets[k])
    /\ NoBaseline(back)
    /\ \A t \in Temps, e \in Energies, r \in BOOLEAN, ts \in Timestamps :
           process_state_update(back, t, e, r, ts).buckets = back.buckets

Unusable(reading) ==
    \/ reading.energy_state = None
    \/ reading.running_state = None
    \/ reading.temp_state = None
    \/ Val(reading.energy_state).is # "number"
    \/ Val(reading.temp_state).is # "number"
    \/ Val(reading.running_state) \notin {"on", "off"}

Polled(reading) ==
    async_update_data(CurrentStore, reading.energy_state, reading.running_state,
                      reading.temp_state, utcnow)

Notified(reading) ==
    handle_state_change(CurrentStore, reading.energy_state, reading.running_state,
                        reading.temp_state, utcnow)

\* C22: a poll or a state-change notification that finds one of the three
\* sensors unavailable or not numeric drops the reading: it changes no
\* bucket and no baseline field and raises nothing to its caller; a reading
\* with three usable sensors is processed whatever was dropped before.
C22_UnusableReadingDropped ==
    /\ raised = "none"
    /\ phase \in {"running", "stopping"} =>
           \A reading \in Readings :
               IF Unusable(reading)
               THEN /\ Polled(reading).store = CurrentStore
                    /\ Polled(reading).raised = "none"
                    /\ Notified(reading).store = CurrentStore
                    /\ Notified(reading).raised = "none"
               ELSE /\ Polled(reading).processed
                    /\ Notified(reading).processed

\* The newest async_save call in flight was issued by `by` with the table as
\* it now is.
Flushing(by) ==
    /\ writes # << >>
    /\ writes[Len(writes)] = Write(by, CurrentStore)

\* C23: async_shutdown and the host stop event each issue a save of the
\* table; and when async_shutdown has finished with its save written, the
\* table on disk holds every observation accepted while the state listener
\* was registered, those delivered while that save was pending included.
C23_ShutdownSnapshotIsComplete ==
    [][ /\ (phase = "running" /\ phase' = "closing") => Flushing("shutdown")'
        /\ (phase = "running" /\ phase' = "stopping") => Flushing("stop")'
        /\ (phase = "closing" /\ phase' = "closed"
                /\ stored' = Some(Head(writes).data))
               => stored' = Some(to_dict(CurrentStore)') ]_vars

\* An awaited write or the debounced write ends in this step and leaves the
\* disk as it was, as every failed write does.
AwaitedWriteFailed == writes # << >> /\ writes' = Tail(writes) /\ stored' = stored
DelayedWriteFailed == delay_save /\ ~delay_save' /\ stored' = stored

\* An observation was accepted in this step of a coordinator that is set up.
Accepted ==
    /\ StoreFields' # StoreFields
    /\ phase \notin {"new", "not_ready"}

\* C24: a write that fails, awaited by the poll, the stop handler or
\* async_shutdown or run by the debounce timer (which has no caller in the
\* coordinator), raises nothing to the caller of that path and changes no
\* bucket and no baseline field; whatever failed
\* before, a usable reading is still processed by the poll and by the
\* state-change handler, and every accepted observation starts or schedules
\* a new save.
C24_FailedSaveIsContained ==
    [][ /\ AwaitedWriteFailed => (raised' = "none" /\ StoreFields' = StoreFields)
        /\ DelayedWriteFailed => (raised' = raised /\ StoreFields' = StoreFields)
        /\ phase \in {"running", "stopping"} =>
               \A reading \in Readings :
                   ~Unusable(reading) =>
                       (Polled(reading).processed /\ Notified(reading).processed)
        /\ Accepted => (delay_save' \/ Len(writes') > Len(writes)) ]_vars

\* Nothing is on disk although the first refresh was saved, so that write
\* failed; the coordinator is running all the same, a later notification was
\* attributed to bucket 5 and its debounced save is scheduled.
C24_Witness ==
    /\ stored = None
    /\ phase = "running"
    /\ raised = "none"
    /\ Populated(5)
    /\ delay_save

\* ------------------------------------------------------------ claims: interleaving

C28_ObservationsNeverWriteAtOnce ==
    [][ Accepted => (writes' = writes /\ stored' = stored) ]_vars

====
